---- MODULE Spec2Model ----
(***************************************************************************)
(* The plan interpreter (BrowserAgent.execute_plan), the Action Library it *)
(* dispatches to, the Extracted-Data Store, and the operator loop of       *)
(* main.py that feeds it.  The browser driver, the planner and the         *)
(* operator are the environment: every outcome they can produce is a       *)
(* nondeterministic choice of the action that consumes it.                 *)
(***************************************************************************)
EXTENDS Integers, Sequences, FiniteSets, TLC

(* ----------------------------- bounds --------------------------------- *)

\* longest plan drawn from StepUniverse
MaxPlanLen == 2

\* execute_plan calls per session
MaxPlans == 2

(* ------------------------- program constants -------------------------- *)

MAX_STEPS_PER_PLAN == 15
MAX_RETRIES_LLM == 2

(* ------------------------------ values -------------------------------- *)

\* A Python str is a sequence of one-character strings; None and str share
\* one record shape so that the store can hold either.
Str(s) == [none |-> FALSE, s |-> s]
None == [none |-> TRUE, s |-> <<>>]

\* Python truthiness of an Optional[str]
Truthy(v) == ~v.none /\ v.s # <<>>

RECURSIVE LStrip(_)
LStrip(s) == IF s # <<>> /\ Head(s) = " " THEN LStrip(Tail(s)) ELSE s

RECURSIVE RStrip(_)
RStrip(s) ==
    IF s # <<>> /\ s[Len(s)] = " " THEN RStrip(SubSeq(s, 1, Len(s) - 1)) ELSE s

\* str.strip()
Strip(s) == RStrip(LStrip(s))

\* str.lower() on the selector types and directions a plan may carry
Lower(s) ==
    CASE s = "CSS" -> "css"
      [] s = "Down" -> "down"
      [] OTHER -> s

\* JSON numbers and strings as int() sees them: the value in tenths
JInt(n) == [kind |-> "int", tenths |-> 10 * n]

\* dict access
Has(step, k) == k \in DOMAIN step
Get(step, k, default) == IF k \in DOMAIN step THEN step[k] ELSE default

\* the first key of keys that step lacks (the KeyError of step[k]), "" if none
RECURSIVE FirstMissing(_, _)
FirstMissing(step, keys) ==
    IF keys = <<>> THEN ""
    ELSE IF ~Has(step, Head(keys)) THEN Head(keys)
    ELSE FirstMissing(step, Tail(keys))

(* ---------------------------- the inputs ------------------------------ *)

NavStep == [action |-> "navigate", url |-> "u"]
NavNoUrl == [action |-> "navigate"]
TypeStep ==
    [action |-> "type", selector_type |-> "name", selector_value |-> "q",
     text |-> <<"a">>, enter_after |-> TRUE]
TypeNoText == [action |-> "type", selector_type |-> "name", selector_value |-> "q"]
TypeBadSelector ==
    [action |-> "type", selector_type |-> "class", selector_value |-> "q",
     text |-> <<"a">>]
TypeNoEnter ==
    [action |-> "type", selector_type |-> "name", selector_value |-> "q",
     text |-> <<"a">>]
ClickStep == [action |-> "click", selector_type |-> "CSS", selector_value |-> "q"]
ClickNoValue == [action |-> "click", selector_type |-> "css"]
ClickBadSelector == [action |-> "click", selector_type |-> "class", selector_value |-> "q"]
WaitStep == [action |-> "wait", seconds |-> JInt(1)]
WaitNoSeconds == [action |-> "wait"]
WaitNegative == [action |-> "wait", seconds |-> JInt(-1)]
WaitFraction == [action |-> "wait", seconds |-> [kind |-> "float", tenths |-> 15]]
WaitText == [action |-> "wait", seconds |-> [kind |-> "text", tenths |-> 0]]
ExtractStep ==
    [action |-> "extract_text", selector_type |-> "xpath", selector_value |-> "q",
     variable_name |-> "x"]
ExtractNoName ==
    [action |-> "extract_text", selector_type |-> "xpath", selector_value |-> "q"]
ExtractBadSelector ==
    [action |-> "extract_text", selector_type |-> "class", selector_value |-> "q",
     variable_name |-> "x"]
ScrollStep == [action |-> "scroll"]
ScrollSideways == [action |-> "scroll", direction |-> "sideways"]
AskStep == [action |-> "ask_user", question |-> "q"]
AskNoQuestion == [action |-> "ask_user"]
ErrorStep == [action |-> "error", message |-> "m"]
ErrorNoMessage == [action |-> "error"]
HoverStep == [action |-> "hover", selector_value |-> "q"]
EmptyActionStep == [action |-> ""]
NoActionStep == [url |-> "u"]

StepUniverse ==
    {NavStep, NavNoUrl, TypeStep, TypeNoText, TypeNoEnter, TypeBadSelector, ClickStep,
     ClickNoValue, ClickBadSelector, ExtractBadSelector, ScrollSideways, WaitStep,
     WaitNoSeconds, WaitNegative, WaitFraction, WaitText, ExtractStep, ExtractNoName, ScrollStep, AskStep,
     AskNoQuestion, ErrorStep, ErrorNoMessage, HoverStep, EmptyActionStep, NoActionStep}

\* A plan is handed over whole, and the code reads its length at once and
\* its step k only in pass k of the loop (main.py reads step 0 before): the
\* model fixes the length at hand-over and draws each step when it is first
\* read.  A plan longer than MaxPlanLen is made of LongSteps only.
LongSteps == {WaitStep, HoverStep}

PlanLens == 0..MaxPlanLen \cup {MAX_STEPS_PER_PLAN + 1}

StepsOf(len) == IF len > MaxPlanLen THEN LongSteps ELSE StepUniverse

(* ------------------------ the browser driver -------------------------- *)

\* what a resolved element exposes: element.text and the two attributes
Element(t, v, n) == [text |-> t, value |-> v, innerText |-> n]

Elements ==
    {Element(<<>>, None, None),
     Element(<<>>, Str(<<>>), Str(<<>>)),
     Element(<<" ">>, None, None),
     Element(<<" ", "a">>, Str(<<"b">>), None),
     Element(<<>>, Str(<<"b">>), Str(<<"a", " ">>)),
     Element(<<>>, None, Str(<<"a", " ">>))}

\* The outcomes of the driver calls an operation makes.  A call that the
\* operation does not reach has no outcome: its field is fixed to "ok".
NavEnvs == [nav : {"ok", "timeout", "error"}]

TypeEnvs ==
    {e \in [find : {"ok", "timeout", "error"}, shown1 : BOOLEAN, shown2 : BOOLEAN,
            keys : {"ok", "clear_fails", "text_fails", "return_fails"}] :
       /\ (e.find # "ok" => e.shown1 /\ e.keys = "ok")
       /\ (e.shown1 => e.shown2)
       /\ (~e.shown2 => e.keys = "ok")}

ClickEnvs ==
    {e \in [find : {"ok", "timeout", "error"},
            click : {"ok", "not_interactable", "stale", "error"},
            refind : {"ok", "timeout"}, js : {"ok", "fail"}] :
       /\ (e.find # "ok" => e.click = "ok")
       /\ (e.click # "not_interactable" => e.refind = "ok")
       /\ (e.refind # "ok" \/ e.click # "not_interactable" => e.js = "ok")}

ExtractEnvs ==
    {e \in [find : {"ok", "timeout", "error"}, elem : Elements] :
       e.find # "ok" => e.elem = Element(<<>>, None, None)}
ScrollEnvs == [script : {"ok", "fail"}]
\* the operator's line, or end of input (input() raises EOFError)
AskEnvs == {[answer |-> <<"a">>, eof |-> FALSE], [answer |-> <<>>, eof |-> TRUE]}
NoEnv == [quiet |-> TRUE]
NoEnvs == {NoEnv}

SelectorTypes ==
    {"css", "xpath", "id", "name", "link_text", "partial_link_text", "tag_name"}

\* mutant: every selector type has a strategy
_get_by_strategy_any(selector_type) == TRUE

\* _get_by_strategy returns a strategy (TRUE) or raises ValueError (FALSE)
_get_by_strategy(selector_type) == Lower(selector_type) \in SelectorTypes

\* mutant: one more direction
DirectionsAndSideways == {"down", "up", "to_bottom", "to_top", "sideways"}

Directions == {"down", "up", "to_bottom", "to_top"}

\* the driver and operator outcomes an iteration on this step may consume;
\* an operation whose selector type has no strategy reaches no driver call
EnvsFor(step) ==
    LET a == Get(step, "action", "None") IN
    CASE a = "navigate" -> NavEnvs
      [] /\ a \in {"type", "click", "extract_text"}
         /\ Has(step, "selector_type")
         /\ ~_get_by_strategy(step.selector_type) -> NoEnvs
      [] /\ a = "scroll"
         /\ Lower(Get(step, "direction", "down")) \notin Directions -> NoEnvs
      [] a = "type" -> TypeEnvs
      [] a = "click" -> ClickEnvs
      [] a = "extract_text" -> ExtractEnvs
      [] a = "scroll" -> ScrollEnvs
      [] a = "ask_user" -> AskEnvs
      [] OTHER -> NoEnvs

(* ------------------------- the Action Library ------------------------- *)

\* what an operation did: its return (TRUE, FALSE or the exception it let
\* escape), the driver calls it made in order, and the store it left
Result(ret, trace, data) == [ret |-> ret, trace |-> trace, data |-> data]

navigate(url, env, data) ==
    IF env.nav = "error" THEN Result("False", <<"get">>, data)
    ELSE IF env.nav = "timeout" THEN Result("False", <<"get", "wait_ready">>, data)
    ELSE Result("True", <<"get", "wait_ready">>, data)

\* mutant: RETURN is sent whatever enter_after says
type_text_submits(selector_type, selector_value, text, enter_after, env, data) ==
    IF ~_get_by_strategy(selector_type) THEN Result("False", <<>>, data)
    ELSE IF env.find # "ok" THEN Result("False", <<"wait_presence">>, data)
    ELSE
      LET t1 == IF env.shown1 THEN <<"wait_presence">>
                ELSE <<"wait_presence", "scroll_into_view">>
          t2 == Append(t1, "clear")
          t3 == Append(t2, "send_text")
          t4 == Append(t3, "send_return")
      IN  IF ~env.shown1 /\ ~env.shown2 THEN Result("False", t1, data)
          ELSE IF env.keys = "clear_fails" THEN Result("False", t2, data)
          ELSE IF env.keys = "text_fails" THEN Result("False", t3, data)
          ELSE IF env.keys = "return_fails" THEN Result("False", t4, data)
          ELSE Result("True", t4, data)

\* shown1 and shown2 are the two is_displayed() and is_enabled() tests; a
\* scrollIntoView script that raises ends as the second test failing does
type_text(selector_type, selector_value, text, enter_after, env, data) ==
    IF ~_get_by_strategy(selector_type) THEN Result("False", <<>>, data)
    ELSE IF env.find # "ok" THEN Result("False", <<"wait_presence">>, data)
    ELSE
      LET t1 == IF env.shown1 THEN <<"wait_presence">>
                ELSE <<"wait_presence", "scroll_into_view">>
          t2 == Append(t1, "clear")
          t3 == Append(t2, "send_text")
          t4 == IF enter_after THEN Append(t3, "send_return") ELSE t3
      IN  IF ~env.shown1 /\ ~env.shown2 THEN Result("False", t1, data)
          ELSE IF env.keys = "clear_fails" THEN Result("False", t2, data)
          ELSE IF env.keys = "text_fails" THEN Result("False", t3, data)
          ELSE IF enter_after /\ env.keys = "return_fails" THEN Result("False", t4, data)
          ELSE Result("True", t4, data)

\* mutant: no fallback
ClickFallbackGivesUp(trace, env, data) == Result("False", trace, data)

\* the except ElementNotInteractableException branch of click_element
ClickFallback(trace, env, data) ==
    IF env.refind # "ok" THEN Result("False", Append(trace, "wait_presence"), data)
    ELSE
      LET t == trace \o <<"wait_presence", "js_click">> IN
      IF env.js = "ok" THEN Result("True", t, data) ELSE Result("False", t, data)

\* the scrollIntoView script is tried and a fault of it is swallowed (lines
\* 129-133), so it has no outcome of its own
click_element(selector_type, selector_value, env, data) ==
    IF ~_get_by_strategy(selector_type) THEN Result("False", <<>>, data)
    ELSE IF env.find # "ok" THEN Result("False", <<"wait_clickable">>, data)
    ELSE
      LET t == <<"wait_clickable", "scroll_into_view", "native_click">> IN
      CASE env.click = "ok" -> Result("True", t, data)
        [] env.click = "not_interactable" -> ClickFallback(t, env, data)
        [] OTHER -> Result("False", t, data)

\* time.sleep raises ValueError on a negative length
wait(seconds, env, data) ==
    IF seconds < 0 THEN Result("ValueError", <<"sleep">>, data)
    ELSE Result("True", <<"sleep">>, data)

\* element.text or get_attribute("value") or get_attribute("innerText"),
\* with the reads the short-circuit makes
TextContent(elem) ==
    IF elem.text # <<>> THEN [v |-> Str(elem.text), reads |-> <<"read_text">>]
    ELSE IF Truthy(elem.value)
      THEN [v |-> elem.value, reads |-> <<"read_text", "read_value">>]
    ELSE [v |-> elem.innerText, reads |-> <<"read_text", "read_value", "read_inner">>]

\* mutant: the store is replaced by the one entry
StoreFresh(data, name, value) == [k \in {name} |-> value]

\* self.extracted_data[name] = value
Store(data, name, value) ==
    [k \in DOMAIN data \cup {name} |-> IF k = name THEN value ELSE data[k]]

\* mutant: the text is stored as read
ExtractedUnstripped(text_content) ==
    IF Truthy(text_content) THEN text_content ELSE Str(<<>>)

\* text_content.strip() if text_content else ""
Extracted(text_content) ==
    IF Truthy(text_content) THEN Str(Strip(text_content.s)) ELSE Str(<<>>)

\* mutant: a failed extraction stores the empty string
ExtractFailedEmpty(data, variable_name) == Store(data, variable_name, Str(<<>>))

\* the two except clauses of extract_text
ExtractFailed(data, variable_name) == Store(data, variable_name, None)

extract_text(selector_type, selector_value, variable_name, env, data) ==
    IF ~_get_by_strategy(selector_type)
      THEN Result("False", <<>>, ExtractFailed(data, variable_name))
    ELSE IF env.find # "ok"
      THEN Result("False", <<"wait_presence">>, ExtractFailed(data, variable_name))
    ELSE
      LET tc == TextContent(env.elem) IN
      Result("True", <<"wait_presence">> \o tc.reads,
             Store(data, variable_name, Extracted(tc.v)))

scroll_window(direction, pixels, env, data) ==
    IF Lower(direction) \notin Directions THEN Result("False", <<>>, data)
    ELSE IF env.script = "ok" THEN Result("True", <<"window_scroll">>, data)
    ELSE Result("False", <<"window_scroll">>, data)

\* returns the operator's line; input() raising is let through
ask_user(question, env) ==
    IF env.eof THEN [raised |-> TRUE, answer |-> <<>>]
    ELSE [raised |-> FALSE, answer |-> env.answer]

(* ------------------------ the Plan Interpreter ------------------------ *)

\* int(v) of a JSON value: the integer, or ValueError (err)
PyInt(v) ==
    CASE v.kind = "int" -> [err |-> FALSE, n |-> v.tenths \div 10]
      [] v.kind = "float" ->
           [err |-> FALSE,
            n |-> IF v.tenths >= 0 THEN v.tenths \div 10 ELSE -((-v.tenths) \div 10)]
      [] v.kind = "digits" -> [err |-> FALSE, n |-> v.tenths \div 10]
      [] OTHER -> [err |-> TRUE, n |-> 0]

\* the value of error_message_for_llm: None, a string passed through
\* verbatim, or one of the formatted messages with what it interpolates
Message(kind, action, params, text) ==
    [kind |-> kind, action |-> action, params |-> params, text |-> text]

NoParams == [quiet |-> TRUE]
NoMessage == Message("None", "", NoParams, "")
Verbatim(text) == Message("verbatim", "", NoParams, text)
NotInitialized == Message("Browser not initialized.", "", NoParams, "")
UnknownAction(action) == Message("Unknown action", action, NoParams, "")
\* mutant: the failure message without the step record
ActionFailedBare(action, step) == Message("Action failed. Params", action, NoParams, "")

ActionFailed(action, step) == Message("Action failed. Params", action, step, "")
MissingParameter(action, key) == Message("Missing parameter for action", action, NoParams, key)
InvalidParameter(action, why) == Message("Invalid parameter for action", action, NoParams, why)
UnexpectedError(action, why) == Message("Unexpected error during action", action, NoParams, why)

NoWrite == [k \in {} |-> None]
Wrote(data, name) == [k \in {name} |-> data[k]]

\* mutant: the key carries the 0-based position
ResponseKeyZeroBased(idx) == "user_response_to_" \o ToString(idx)

\* f"user_response_to_{i+1}" for the 0-based position idx
ResponseKey(idx) == "user_response_to_" \o ToString(idx + 1)

\* what one pass of the loop body leaves: whether it broke out of the loop,
\* the message it set, the Action Library operation it called (op, "none"
\* when it called none), and that operation's return, driver calls and writes
Outcome(brk, msg, op, r, wrote) ==
    [brk |-> brk, msg |-> msg, op |-> op, ret |-> r.ret, trace |-> r.trace,
     data |-> r.data, wrote |-> wrote]

\* an iteration that called no operation
Stop(msg, data) == Outcome(TRUE, msg, "none", Result("none", <<>>, data), NoWrite)

\* mutant: a failed step is skipped and the loop goes on
AfterCallSkip(action, step, op, r, wrote) ==
    CASE r.ret = "True" -> Outcome(FALSE, NoMessage, op, r, wrote)
      [] r.ret = "False" -> Outcome(FALSE, ActionFailed(action, step), op, r, wrote)
      [] OTHER -> Outcome(TRUE, InvalidParameter(action, r.ret), op, r, wrote)

\* lines 263-271 and 278-282: the step_success test, and the ValueError
\* clause for an operation that raised, applied to the operation's return
AfterCall(action, step, op, r, wrote) ==
    CASE r.ret = "True" -> Outcome(FALSE, NoMessage, op, r, wrote)
      [] r.ret = "False" -> Outcome(TRUE, ActionFailed(action, step), op, r, wrote)
      [] OTHER -> Outcome(TRUE, InvalidParameter(action, r.ret), op, r, wrote)

\* mutant: the KeyError clause without its break
OnKeyErrorNoBreak(action, key, data) ==
    Outcome(FALSE, MissingParameter(action, key), "none", Result("none", <<>>, data), NoWrite)

\* lines 273-277: except KeyError, raised by step[key] before any call
OnKeyError(action, key, data) == Stop(MissingParameter(action, key), data)

\* lines 278-282: except ValueError, raised before any call
OnValueError(action, why, data) == Stop(InvalidParameter(action, why), data)

\* lines 283-287: except Exception, for a fault the operation op let through
OnException(action, why, op, trace, data) ==
    Outcome(TRUE, UnexpectedError(action, why), op, Result(why, trace, data), NoWrite)

\* mutant: the error record without its break
OnErrorRecordNoBreak(step, data) ==
    Outcome(FALSE, IF Has(step, "message") THEN Verbatim(step.message) ELSE NoMessage,
            "none", Result("none", <<>>, data), NoWrite)

\* lines 252-256: an error record
OnErrorRecord(step, data) ==
    Stop(IF Has(step, "message") THEN Verbatim(step.message) ELSE NoMessage, data)

\* mutant: an unknown action without its break
OnUnknownActionNoBreak(action, data) ==
    Outcome(FALSE, UnknownAction(action), "none", Result("none", <<>>, data), NoWrite)

\* lines 257-261: no branch matches the action
OnUnknownAction(action, data) == Stop(UnknownAction(action), data)

\* the body of the for loop of execute_plan on step at 0-based position idx
Iteration(step, idx, env, data) ==
    LET action == Get(step, "action", "None")
        missing(keys) == FirstMissing(step, keys)
    IN
    CASE action = "navigate" ->
           IF Get(step, "url", "") = ""
             THEN OnValueError(action, "'url' missing for navigate action.", data)
             ELSE AfterCall(action, step, "navigate", navigate(step.url, env, data), NoWrite)
      [] action = "type" ->
           LET k == missing(<<"selector_type", "selector_value", "text">>) IN
           IF k # "" THEN OnKeyError(action, k, data)
           ELSE AfterCall(action, step, "type_text",
                          type_text(step.selector_type, step.selector_value, step.text,
                                    Get(step, "enter_after", FALSE), env, data),
                          NoWrite)
      [] action = "click" ->
           LET k == missing(<<"selector_type", "selector_value">>) IN
           IF k # "" THEN OnKeyError(action, k, data)
           ELSE AfterCall(action, step, "click_element",
                          click_element(step.selector_type, step.selector_value, env, data),
                          NoWrite)
      [] action = "wait" ->
           IF ~Has(step, "seconds") THEN OnKeyError(action, "seconds", data)
           ELSE LET s == PyInt(step.seconds) IN
                IF s.err THEN OnValueError(action, "invalid literal for int()", data)
                ELSE AfterCall(action, step, "wait", wait(s.n, env, data), NoWrite)
      [] action = "extract_text" ->
           LET k == missing(<<"selector_type", "selector_value", "variable_name">>) IN
           IF k # "" THEN OnKeyError(action, k, data)
           ELSE LET r == extract_text(step.selector_type, step.selector_value,
                                      step.variable_name, env, data)
                IN  AfterCall(action, step, "extract_text", r,
                              Wrote(r.data, step.variable_name))
      [] action = "scroll" ->
           LET px == PyInt(Get(step, "pixels", JInt(0))) IN
           IF px.err THEN OnValueError(action, "invalid literal for int()", data)
           ELSE AfterCall(action, step, "scroll_window",
                          scroll_window(Get(step, "direction", "down"), px.n, env, data),
                          NoWrite)
      [] action = "ask_user" ->
           IF ~Has(step, "question") THEN OnKeyError(action, "question", data)
           ELSE LET user_response == ask_user(step.question, env)
                    stored == Store(data, ResponseKey(idx), Str(user_response.answer))
                IN  IF user_response.raised
                      THEN OnException(action, "EOFError", "ask_user", <<"input">>, data)
                    ELSE AfterCall(action, step, "ask_user",
                                   Result("True", <<"input">>, stored),
                                   Wrote(stored, ResponseKey(idx)))
      [] action = "error" -> OnErrorRecord(step, data)
      [] OTHER -> OnUnknownAction(action, data)

(* ------------------------------ the state ----------------------------- *)

\* previous_actions_history of main.py is appended to and never read: it is
\* left out.

VARIABLES
    caller,                  \* "main": the operator loop; "direct": a client
                             \* calling the BrowserAgent methods itself
    pc,                      \* where the caller or execute_plan stands
    driver,                  \* self.driver is set (TRUE) or None (FALSE)
    extracted_data,          \* self.extracted_data
    plan_len,                \* len(plan) of the plan at hand
    plan,                    \* its steps read so far, in order
    i,                       \* 0-based index of the loop of execute_plan
    executed_successfully,   \* first component of the verdict
    error_message_for_llm,   \* second component of the verdict
    log,                     \* per loop pass of this execute_plan call: the
                             \* operation called, its return and its write
    env_seen,                \* the outcomes the environment gave the latest pass
    trace,                   \* the driver calls of the latest operation
    calls,                   \* execute_plan calls made in this session
    attempt,                 \* loop index of generate_plan_from_instruction
    requests,                \* requests that call made to the language model
    raw_llm_output,          \* what the latest request brought
    wellformed,              \* every record of the plan at hand has an action
                             \* key (all that main knows of the records it
                             \* has not read yet)
    answered,                \* what the operator said to the two prompts
                             \* about the plan at hand
    confirmed                \* plans the operator confirmed in this session

vars ==
    <<caller, pc, driver, extracted_data, plan_len, plan, i,
      executed_successfully, error_message_for_llm, log, env_seen, trace, calls,
      attempt, requests, raw_llm_output, wellformed, answered, confirmed>>

\* the locals of generate_plan_from_instruction
planner == <<attempt, requests, raw_llm_output>>

\* the operator's part in the plan at hand
operator == <<answered, confirmed>>

NotAsked == [long |-> "none", run |-> "none"]

Entry(o) == [op |-> o.op, ret |-> o.ret, wrote |-> o.wrote]

\* BrowserAgent.__init__ succeeded (it raises otherwise) and nothing ran yet
Init ==
    /\ caller \in {"main", "direct"}
    /\ pc = IF caller = "main" THEN "prompt" ELSE "direct"
    /\ driver = TRUE
    /\ extracted_data = NoWrite
    /\ plan_len = 0
    /\ plan = <<>>
    /\ i = 0
    /\ executed_successfully = TRUE
    /\ error_message_for_llm = NoMessage
    /\ log = <<>>
    /\ env_seen = NoEnv
    /\ trace = <<>>
    /\ calls = 0
    /\ attempt = 0
    /\ requests = 0
    /\ raw_llm_output = "none"
    /\ wellformed = (caller = "main")
    /\ answered = NotAsked
    /\ confirmed = 0

(* ----------------------------- execute_plan --------------------------- *)

\* mutant: each call starts from an empty store
EnterFresh(len) ==
    /\ plan_len' = len
    /\ i' = 0
    /\ log' = <<>>
    /\ env_seen' = NoEnv
    /\ trace' = <<>>
    /\ calls' = calls + 1
    /\ executed_successfully' = driver
    /\ error_message_for_llm' = IF driver THEN NoMessage ELSE NotInitialized
    /\ pc' = IF driver /\ len > 0 THEN "exec" ELSE "returned"
    /\ extracted_data' = NoWrite
    /\ UNCHANGED <<caller, driver, planner, wellformed>>

\* lines 216-223: the driver test, the two locals, and the loop entry; an
\* empty plan falls through the loop to the return
Enter(len) ==
    /\ plan_len' = len
    /\ i' = 0
    /\ log' = <<>>
    /\ env_seen' = NoEnv
    /\ trace' = <<>>
    /\ calls' = calls + 1
    /\ executed_successfully' = driver
    /\ error_message_for_llm' = IF driver THEN NoMessage ELSE NotInitialized
    /\ pc' = IF driver /\ len > 0 THEN "exec" ELSE "returned"
    /\ UNCHANGED <<caller, driver, extracted_data, planner, wellformed>>

\* the steps the plan at hand may hold at 0-based position idx
StepsAt(idx) ==
    IF idx < Len(plan) THEN {plan[idx + 1]}
    ELSE IF wellformed THEN {s \in StepsOf(plan_len) : Has(s, "action")}
    ELSE StepsOf(plan_len)

\* one pass of the loop; a break, or the end of the plan, runs on to the
\* return of line 295
ExecStep ==
    /\ pc = "exec"
    /\ \E step \in StepsAt(i) : \E env \in EnvsFor(step) :
         LET o == Iteration(step, i, env, extracted_data) IN
         /\ plan' = IF i < Len(plan) THEN plan ELSE Append(plan, step)
         /\ extracted_data' = o.data
         /\ log' = Append(log, Entry(o))
         /\ env_seen' = env
         /\ trace' = o.trace
         /\ executed_successfully' = ~o.brk
         /\ error_message_for_llm' = o.msg
         /\ i' = IF o.brk THEN i ELSE i + 1
         /\ pc' = IF o.brk \/ i + 1 = plan_len THEN "returned" ELSE "exec"
    /\ UNCHANGED <<caller, driver, plan_len, calls, planner, wellformed, operator>>

(* --------------------------- the operator loop ------------------------ *)

Forget ==
    /\ plan_len' = 0
    /\ plan' = <<>>
    /\ i' = 0
    /\ log' = <<>>
    /\ env_seen' = NoEnv
    /\ trace' = <<>>
    /\ executed_successfully' = TRUE
    /\ error_message_for_llm' = NoMessage
    /\ answered' = NotAsked
    /\ UNCHANGED <<planner, wellformed, confirmed>>

\* main.py 34-36: a blank line
BlankLine ==
    /\ caller = "main" /\ pc = "prompt"
    /\ UNCHANGED vars

\* main.py 37-38 and 94-96: exit, and the browser is closed
Exit ==
    /\ caller = "main" /\ pc = "prompt"
    /\ pc' = "closed"
    /\ driver' = FALSE
    /\ UNCHANGED <<caller, extracted_data, plan_len, plan, i, executed_successfully,
                   error_message_for_llm, log, env_seen, trace, calls, planner,
                   wellformed, operator>>

\* main.py 39-43: clear
Clear ==
    /\ caller = "main" /\ pc = "prompt"
    /\ extracted_data' = NoWrite
    /\ UNCHANGED <<caller, pc, driver, plan_len, plan, i, executed_successfully,
                   error_message_for_llm, log, env_seen, trace, calls, planner,
                   wellformed, operator>>

\* the rest of the session, which neither the planner nor the prompts touch
session ==
    <<caller, driver, extracted_data, i, executed_successfully,
      error_message_for_llm, log, env_seen, trace, calls>>

\* main.py 45-47 and llm_handler.py 112-120: an instruction is read and
\* generate_plan_from_instruction enters its loop
Instruction ==
    /\ caller = "main" /\ pc = "prompt"
    /\ calls < MaxPlans
    /\ pc' = "llm"
    /\ attempt' = 0
    /\ requests' = 0
    /\ raw_llm_output' = "none"
    /\ UNCHANGED <<session, plan_len, plan, wellformed, operator>>

\* the single-record plans generate_plan_from_instruction makes itself
ErrorRecord(message) == [action |-> "error", message |-> message]

\* What a request to the language model brings, as the code tells the cases
\* apart: the call raises; no candidate, with or without a block reason; an
\* empty text; a text that, once its code fence is cut off, is no JSON, is
\* JSON but no list, is a list with an element that is no record with an
\* action key (bad_step), or is a list of records that all have one (plan).
\* Of a list the length and the record at position 0 are drawn here.
Responses ==
    {[kind |-> k, len |-> 0, head |-> <<>>] :
       k \in {"raises", "blocked", "empty_response", "empty_text", "not_json",
              "not_list", "plan"}}
    \cup UNION {{[kind |-> "plan", len |-> n, head |-> <<s>>] :
                   s \in {t \in StepsOf(n) : Has(t, "action")}} : n \in PlanLens \ {0}}
    \cup UNION {{[kind |-> "bad_step", len |-> n, head |-> <<s>>] :
                   s \in {t \in StepUniverse : n = 1 => ~Has(t, "action")}} :
                 n \in 1..MaxPlanLen}

\* what one pass of the loop ends in: a return of a plan, or the next pass
Give(len, head, wf) == [returns |-> TRUE, len |-> len, head |-> head, wf |-> wf]
Retry == [returns |-> FALSE, len |-> 0, head |-> <<>>, wf |-> TRUE]
ErrorPlan(message) == Give(1, <<ErrorRecord(message)>>, TRUE)

\* lines 173 and 178
LastAttempt(n) == n = MAX_RETRIES_LLM - 1

\* the two except clauses, and line 182 when the loop runs out
OnFailure(message, n) ==
    IF LastAttempt(n) THEN ErrorPlan(message)
    ELSE IF n + 1 < MAX_RETRIES_LLM THEN Retry
    ELSE ErrorPlan("LLM failed to generate a valid plan.")

\* mutant: any list is returned
ValidatedAny(response) == response.kind \in {"plan", "bad_step"}

\* lines 162-167: a list whose elements are all records with an action key
Validated(response) == response.kind = "plan"

\* lines 121-180: the body of the loop on the response of its request
OneAttempt(response, n) ==
    CASE response.kind = "blocked" -> ErrorPlan("LLM generation blocked")
      [] response.kind = "empty_response" ->
           ErrorPlan("LLM generation failed (empty response).")
      [] response.kind = "not_json" ->
           OnFailure("Failed to parse LLM JSON output after multiple retries.", n)
      [] response.kind \in {"plan", "bad_step"} /\ Validated(response) ->
           Give(response.len, response.head, response.kind = "plan")
      [] OTHER -> OnFailure("An unexpected error occurred with the LLM", n)

\* one pass of the loop of generate_plan_from_instruction: one request
Attempt ==
    /\ caller = "main" /\ pc = "llm"
    /\ attempt < MAX_RETRIES_LLM
    /\ \E response \in Responses :
         LET o == OneAttempt(response, attempt) IN
         /\ requests' = requests + 1
         /\ raw_llm_output' = response.kind
         /\ IF o.returns
              THEN /\ pc' = "planned"
                   /\ plan_len' = o.len
                   /\ plan' = o.head
                   /\ wellformed' = o.wf
                   /\ attempt' = attempt
              ELSE /\ pc' = "llm"
                   /\ attempt' = attempt + 1
                   /\ UNCHANGED <<plan_len, plan, wellformed>>
    /\ UNCHANGED <<session, operator>>

\* main.py 49-66: the tests main makes on the plan that came back
Inspect ==
    /\ caller = "main" /\ pc = "planned"
    /\ attempt' = 0
    /\ requests' = 0
    /\ raw_llm_output' = "none"
    /\ IF \/ plan_len = 0
          \/ Get(plan[1], "action", "") = ""
          \/ plan[1].action = "error"
         THEN /\ pc' = "prompt"
              /\ plan_len' = 0
              /\ plan' = <<>>
              /\ wellformed' = TRUE
         ELSE /\ pc' = IF plan_len > MAX_STEPS_PER_PLAN THEN "confirm_long" ELSE "confirm"
              /\ UNCHANGED <<plan_len, plan, wellformed>>
    /\ UNCHANGED <<session, operator>>

Answers == {"yes", "y", "Y", "no", ""}

\* str.lower() of an answer
LowerAnswer(a) == IF a = "Y" THEN "y" ELSE a

\* what the operator said, for the record of the session
Said(a) == IF LowerAnswer(a) \in {"yes", "y"} THEN "yes" ELSE "no"

\* mutant: whatever the operator says is taken for a yes
AcceptsAnything(a) == TRUE

\* main.py 63 and 69: the answer, lower-cased, is yes or y
Accepts(a) == LowerAnswer(a) = "yes" \/ LowerAnswer(a) = "y"

\* main.py 60-65
AnswerLongPlan ==
    /\ caller = "main" /\ pc = "confirm_long"
    /\ \E a \in Answers :
         IF ~Accepts(a)
           THEN /\ pc' = "prompt"
                /\ plan_len' = 0
                /\ plan' = <<>>
                /\ answered' = NotAsked
           ELSE /\ pc' = "confirm"
                /\ answered' = [answered EXCEPT !.long = Said(a)]
                /\ UNCHANGED <<plan_len, plan>>
    /\ UNCHANGED <<session, planner, wellformed, confirmed>>

\* main.py 68-71 and 87-88
AnswerConfirm ==
    /\ caller = "main" /\ pc = "confirm"
    /\ \E a \in Answers :
         IF Accepts(a)
           THEN /\ Enter(plan_len)
                /\ answered' = [answered EXCEPT !.run = Said(a)]
                /\ confirmed' = confirmed + 1
                /\ UNCHANGED plan
           ELSE /\ pc' = "prompt"
                /\ plan_len' = 0
                /\ plan' = <<>>
                /\ answered' = NotAsked
                /\ UNCHANGED <<session, planner, wellformed, confirmed>>

\* main.py 72-86: the verdict is printed and Enter is awaited
Continue ==
    /\ caller = "main" /\ pc = "returned"
    /\ pc' = "prompt"
    /\ Forget
    /\ UNCHANGED <<caller, driver, extracted_data, calls>>

(* ------------------------- a client of the class ---------------------- *)

\* agent.execute_plan(plan, ...) as browser_actions.py 310 calls it, once
DirectExecute ==
    /\ caller = "direct" /\ pc = "direct"
    /\ calls = 0
    /\ \E len \in PlanLens :
         /\ plan' = <<>>
         /\ Enter(len)
    /\ UNCHANGED operator

\* the client reads the verdict and the store (browser_actions.py 311-314)
DirectReturn ==
    /\ caller = "direct" /\ pc = "returned"
    /\ pc' = "direct"
    /\ Forget
    /\ UNCHANGED <<caller, driver, extracted_data, calls>>

\* agent.close_browser()
close_browser ==
    /\ caller = "direct" /\ pc = "direct"
    /\ driver
    /\ driver' = FALSE
    /\ UNCHANGED <<caller, pc, extracted_data, plan_len, plan, i,
                   executed_successfully, error_message_for_llm, log, env_seen, trace, calls,
                   planner, wellformed, operator>>

Next ==
    \/ ExecStep
    \/ BlankLine
    \/ Exit
    \/ Clear
    \/ Instruction
    \/ Attempt
    \/ Inspect
    \/ AnswerLongPlan
    \/ AnswerConfirm
    \/ Continue
    \/ DirectExecute
    \/ DirectReturn
    \/ close_browser

Spec == Init /\ [][Next]_vars

(* ------------------------------ the claims ---------------------------- *)

Returned == pc = "returned"
Passes == Len(log)
ActionOf(step) == Get(step, "action", "None")
Aborted == Returned /\ ~executed_successfully

\* C1: a pass whose operation returned False is the last pass of its
\* execute_plan call: the call has returned with verdict false at that
\* index, and no later step of the plan was dispatched, nor that step again.
C1_FailureStopsThePlan ==
    /\ Passes <= plan_len
    /\ \A k \in 1..Passes :
         log[k].ret = "False" =>
           /\ k = Passes
           /\ Aborted
           /\ i = k - 1

\* a step that is not the last one failed
C1_Witness ==
    /\ Returned
    /\ Passes >= 1
    /\ Passes < plan_len
    /\ log[Passes].ret = "False"

\* C2: an error record read at some position ends the call there with
\* verdict false and the record's own message (None if it has none); no
\* operation is called for it and no later step is read.
C2_ErrorRecordAborts ==
    \A k \in 1..Passes :
      ActionOf(plan[k]) = "error" =>
        /\ k = Passes
        /\ Aborted
        /\ i = k - 1
        /\ log[k].op = "none"
        /\ trace = <<>>
        /\ IF Has(plan[k], "message")
             THEN /\ error_message_for_llm.kind = "verbatim"
                  /\ error_message_for_llm.text = plan[k].message
             ELSE error_message_for_llm = NoMessage
        /\ \A j \in 1..(k - 1) : log[j].ret = "True"

\* an error record with a message, after a step that succeeded
C2_Witness ==
    /\ Returned
    /\ Passes = 2
    /\ log[1].ret = "True"
    /\ ActionOf(plan[2]) = "error"
    /\ Has(plan[2], "message")

\* the fields the Action Record table requires per action
Required(action) ==
    CASE action = "navigate" -> {"url"}
      [] action = "type" -> {"selector_type", "selector_value", "text"}
      [] action = "click" -> {"selector_type", "selector_value"}
      [] action = "wait" -> {"seconds"}
      [] action = "extract_text" -> {"selector_type", "selector_value", "variable_name"}
      [] action = "ask_user" -> {"question"}
      [] OTHER -> {}

Lacks(step) == Required(ActionOf(step)) \ DOMAIN step

ParameterErrors == {"Missing parameter for action", "Invalid parameter for action"}

\* C4: a step of a recognised action that lacks a required field ends the
\* call at that step with verdict false and a parameter-error message that
\* names the action; no operation is called for it and no later step is read.
C4_MissingFieldAborts ==
    \A k \in 1..Passes :
      Lacks(plan[k]) # {} =>
        /\ k = Passes
        /\ Aborted
        /\ i = k - 1
        /\ log[k].op = "none"
        /\ trace = <<>>
        /\ error_message_for_llm.kind \in ParameterErrors
        /\ error_message_for_llm.action = plan[k].action
        /\ error_message_for_llm.kind = "Missing parameter for action" =>
             error_message_for_llm.text \in Lacks(plan[k])

\* a step that lacks a field, with a step after it
C4_Witness ==
    /\ Returned
    /\ Passes >= 1
    /\ Passes < plan_len
    /\ Lacks(plan[Passes]) # {}
    /\ error_message_for_llm.kind = "Missing parameter for action"

Recognised ==
    {"navigate", "type", "click", "wait", "extract_text", "scroll", "ask_user", "error"}

\* C5: a step whose action is absent or unrecognised ends the call at that
\* step with verdict false and the unknown-action message; no operation is
\* called for it and no later step is read.
C5_UnknownActionAborts ==
    \A k \in 1..Passes :
      ActionOf(plan[k]) \notin Recognised =>
        /\ k = Passes
        /\ Aborted
        /\ i = k - 1
        /\ log[k].op = "none"
        /\ trace = <<>>
        /\ error_message_for_llm.kind = "Unknown action"
        /\ error_message_for_llm.action = ActionOf(plan[k])

\* a step without an action key, with a step after it
C5_Witness ==
    /\ Returned
    /\ Passes >= 1
    /\ Passes < plan_len
    /\ ~Has(plan[Passes], "action")

\* C6: when an operation returned False, the message of the verdict is the
\* action-failed message with that step's action and that step's record.
C6_FailureMessageNamesTheStep ==
    \A k \in 1..Passes :
      log[k].ret = "False" =>
        /\ Aborted
        /\ error_message_for_llm.kind = "Action failed. Params"
        /\ error_message_for_llm.action = plan[k].action
        /\ error_message_for_llm.params = plan[k]

\* the second step failed after the first succeeded
C6_Witness ==
    /\ Returned
    /\ Passes = 2
    /\ log[1].ret = "True"
    /\ log[2].ret = "False"

\* the text an element exposes: the first non-empty of its visible text,
\* its value attribute and its innerText attribute
Exposed(elem) ==
    IF elem.text # <<>> THEN elem.text
    ELSE IF Truthy(elem.value) THEN elem.value.s
    ELSE IF Truthy(elem.innerText) THEN elem.innerText.s
    ELSE <<>>

\* v is raw without its leading and trailing blanks
IsStripOf(raw, v) ==
    /\ v # <<>> => v[1] # " " /\ v[Len(v)] # " "
    /\ \E a \in 0..Len(raw) :
         /\ a + Len(v) <= Len(raw)
         /\ \A j \in 1..Len(v) : raw[a + j] = v[j]
         /\ \A j \in 1..Len(raw) : (j <= a \/ j > a + Len(v)) => raw[j] = " "

AllSucceeded == Passes = plan_len /\ \A k \in 1..Passes : log[k].ret = "True"

\* the last pass that wrote name n
LastWriter(n) ==
    CHOOSE k \in 1..Passes :
      /\ n \in DOMAIN log[k].wrote
      /\ \A j \in (k + 1)..Passes : n \notin DOMAIN log[j].wrote

\* every name a pass wrote is in the store with the value of its last writer
LastWritesStand ==
    \A k \in 1..Passes : \A n \in DOMAIN log[k].wrote :
      /\ n \in DOMAIN extracted_data
      /\ extracted_data[n] = log[LastWriter(n)].wrote[n]

ExtractedNow ==
    /\ Passes >= 1
    /\ log[Passes].op = "extract_text"
    /\ log[Passes].ret = "True"

\* C3 as stated: when every step succeeded the verdict is (true, none), and
\* a successful extract_text leaves under its variable_name the text the
\* driver exposed.
C3_AsStated ==
    /\ Returned /\ driver /\ AllSucceeded =>
         executed_successfully /\ error_message_for_llm = NoMessage
    /\ ExtractedNow =>
         extracted_data[plan[Passes].variable_name] = Str(Exposed(env_seen.elem))

\* C3, amended: when every step succeeded (the empty plan too) the verdict
\* on an initialized browser is (true, none); a successful extract_text
\* leaves under its variable_name the exposed text stripped of surrounding
\* blanks, and at the return every name holds what its last writer stored.
C3_SuccessVerdictAndStrippedText ==
    /\ Returned /\ driver /\ AllSucceeded =>
         /\ executed_successfully
         /\ error_message_for_llm = NoMessage
         /\ LastWritesStand
    /\ ExtractedNow =>
         LET v == extracted_data[plan[Passes].variable_name] IN
         /\ ~v.none
         /\ IsStripOf(Exposed(env_seen.elem), v.s)

\* a plan of two steps succeeded, the second extracting a text with a
\* leading blank from an element that also has a value attribute
C3_Witness ==
    /\ Returned /\ driver /\ AllSucceeded
    /\ Passes = 2
    /\ ExtractedNow
    /\ env_seen.elem.text = <<" ", "a">>
    /\ extracted_data["x"] = Str(<<"a">>)

\* the passes before the one the call aborted at that stored something
StoredBeforeAbort == {k \in 1..(Passes - 1) : log[k].wrote # NoWrite}

\* C7 as stated: when the call aborts, every name a successful earlier step
\* wrote is in the store with the value that step stored.
C7_AsStated ==
    Aborted =>
      \A k \in StoredBeforeAbort : \A n \in DOMAIN log[k].wrote :
        /\ n \in DOMAIN extracted_data
        /\ extracted_data[n] = log[k].wrote[n]

\* C7, amended: when the call aborts, every name a successful earlier step
\* wrote is in the store, with the value of the last pass that wrote the
\* name (the aborting extract_text included, which stores None).
C7_PartialResultsSurvive ==
    Aborted =>
      \A k \in StoredBeforeAbort : \A n \in DOMAIN log[k].wrote :
        /\ log[k].ret = "True"
        /\ n \in DOMAIN extracted_data
        /\ extracted_data[n] = log[LastWriter(n)].wrote[n]

\* an answer was stored, then a step that writes nothing failed
C7_Witness ==
    /\ Aborted
    /\ Passes = 2
    /\ log[1].op = "ask_user"
    /\ log[2].ret = "False"
    /\ log[2].wrote = NoWrite
    /\ extracted_data[ResponseKey(0)] = Str(<<"a">>)

AllEmpty(elem) == elem.text = <<>> /\ ~Truthy(elem.value) /\ ~Truthy(elem.innerText)

\* C8: extract_text on a resolved element that exposes nothing returns True
\* and stores the empty string; on a selector that does not resolve in time
\* it returns False and stores None; the two stored values differ.
C8_EmptyVersusAbsent ==
    (Passes >= 1 /\ log[Passes].op = "extract_text" /\ trace # <<>>) =>
      LET name == plan[Passes].variable_name IN
      /\ (env_seen.find = "ok" /\ AllEmpty(env_seen.elem)) =>
           /\ log[Passes].ret = "True"
           /\ extracted_data[name] = Str(<<>>)
           /\ extracted_data[name] # None
      /\ env_seen.find = "timeout" =>
           /\ log[Passes].ret = "False"
           /\ extracted_data[name] = None
           /\ extracted_data[name] # Str(<<>>)

\* an extraction stored the empty string, and the next one, whose selector
\* did not resolve, stored None under the same name
C8_Witness ==
    /\ Passes = 2
    /\ log[1].op = "extract_text"
    /\ log[1].wrote = [k \in {"x"} |-> Str(<<>>)]
    /\ log[2].op = "extract_text"
    /\ trace # <<>>
    /\ env_seen.find = "timeout"
    /\ extracted_data["x"] = None

\* C9: a step that removes a name from the store is the clear command at
\* the prompt, which empties it; no step of execute_plan removes a name.
C9_OnlyClearRemovesNames ==
    [][\/ DOMAIN extracted_data \subseteq DOMAIN extracted_data'
       \/ /\ caller = "main"
          /\ pc = "prompt" /\ pc' = "prompt"
          /\ extracted_data' = NoWrite]_vars

\* the second call of a session aborted and the store still holds a name
\* that only the first call wrote
C9_Witness ==
    /\ calls = 2
    /\ Aborted
    /\ Passes >= 1
    /\ \E n \in DOMAIN extracted_data : \A k \in 1..Passes : n \notin DOMAIN log[k].wrote

Count(seq, x) == Cardinality({j \in 1..Len(seq) : seq[j] = x})

NativeClickBlocked ==
    /\ Passes >= 1
    /\ log[Passes].op = "click_element"
    /\ trace # <<>>
    /\ env_seen.find = "ok"
    /\ env_seen.click = "not_interactable"

\* C10 as stated: after a not-interactable native click exactly one
\* script-driven click is attempted, and the step succeeds iff it does.
C10_AsStated ==
    NativeClickBlocked =>
      /\ Count(trace, "js_click") = 1
      /\ log[Passes].ret = "True" <=> (env_seen.refind = "ok" /\ env_seen.js = "ok")

\* C10, amended: after a not-interactable native click the element is
\* resolved once more, by presence; if it resolves exactly one script-driven
\* click follows and is the last driver call, else none is made; the step
\* succeeds iff the element resolved and the script-driven click succeeded.
C10_OneScriptedFallback ==
    NativeClickBlocked =>
      /\ Count(trace, "native_click") = 1
      /\ Count(trace, "wait_presence") = 1
      /\ Count(trace, "js_click") = IF env_seen.refind = "ok" THEN 1 ELSE 0
      /\ env_seen.refind = "ok" =>
           /\ trace[Len(trace)] = "js_click"
           /\ trace[Len(trace) - 1] = "wait_presence"
           /\ trace[Len(trace) - 2] = "native_click"
      /\ env_seen.refind # "ok" => trace[Len(trace)] = "wait_presence"
      /\ log[Passes].ret = "True" <=> (env_seen.refind = "ok" /\ env_seen.js = "ok")
      /\ log[Passes].ret = "False" <=> (env_seen.refind # "ok" \/ env_seen.js # "ok")
      /\ log[Passes].ret = "False" => Aborted

\* the native click was blocked and the script-driven click succeeded
C10_Witness ==
    /\ NativeClickBlocked
    /\ env_seen.refind = "ok"
    /\ env_seen.js = "ok"
    /\ log[Passes].ret = "True"
    /\ executed_successfully

\* the latest pass called type_text
TypePass ==
    /\ Passes >= 1
    /\ log[Passes].op = "type_text"

\* send_keys(text) was called and returned
TextInjected ==
    /\ Count(trace, "send_text") = 1
    /\ env_seen.keys # "text_fails"

\* C11: a type step whose enter_after is false (or absent) never sends the
\* RETURN keystroke; one whose enter_after is true and whose text was
\* injected sends RETURN exactly once, as the last driver call, directly
\* after the text, which directly follows the clear.
C11_SubmitFollowsClearAndText ==
    TypePass =>
      LET enter_after == Get(plan[Passes], "enter_after", FALSE) IN
      /\ ~enter_after => Count(trace, "send_return") = 0
      /\ Count(trace, "send_return") >= 1 => TextInjected
      /\ (enter_after /\ TextInjected) =>
           /\ Count(trace, "send_return") = 1
           /\ Count(trace, "clear") = 1
           /\ Len(trace) >= 3
           /\ trace[Len(trace)] = "send_return"
           /\ trace[Len(trace) - 1] = "send_text"
           /\ trace[Len(trace) - 2] = "clear"

\* a type step with enter_after that was scrolled into view and submitted
C11_Witness ==
    /\ TypePass
    /\ Get(plan[Passes], "enter_after", FALSE)
    /\ trace = <<"wait_presence", "scroll_into_view", "clear", "send_text", "send_return">>
    /\ log[Passes].ret = "True"

\* the latest pass read a wait step that carries seconds
WaitPass ==
    /\ Passes >= 1
    /\ ActionOf(plan[Passes]) = "wait"
    /\ Has(plan[Passes], "seconds")

\* the JSON value is an integer that is not negative
NonNegativeInteger(v) == v.kind = "int" /\ v.tenths >= 0

\* C12 as stated: a wait step whose seconds is not a non-negative integer
\* is rejected before the wait operation is called and the plan aborts;
\* a wait operation that is called returns success.
C12_AsStated ==
    WaitPass =>
      /\ ~NonNegativeInteger(plan[Passes].seconds) =>
           /\ log[Passes].op = "none"
           /\ Aborted
      /\ log[Passes].op = "wait" => log[Passes].ret = "True"

\* the latest pass called an element operation with a selector type that
\* is none of the seven, whatever its case
BadSelectorPass ==
    /\ Passes >= 1
    /\ log[Passes].op \in {"type_text", "click_element", "extract_text"}
    /\ Lower(plan[Passes].selector_type) \notin
         {"css", "xpath", "id", "name", "link_text", "partial_link_text", "tag_name"}

\* C13: a type, click or extract_text step whose selector type is not one
\* of the seven starts no bounded element wait and makes no other driver
\* call; its operation returns False and the plan aborts at that step with
\* the step-failure message.
C13_BadSelectorNeverWaits ==
    BadSelectorPass =>
      /\ trace = <<>>
      /\ log[Passes].ret = "False"
      /\ Aborted
      /\ i = Passes - 1
      /\ error_message_for_llm = ActionFailed(plan[Passes].action, plan[Passes])

\* a click with selector type "class" after a step that succeeded
C13_Witness ==
    /\ BadSelectorPass
    /\ Passes = 2
    /\ log[1].ret = "True"
    /\ plan[2].action = "click"
    /\ Returned

\* the latest pass read an ask_user step
AskPass ==
    /\ Passes >= 1
    /\ ActionOf(plan[Passes]) = "ask_user"

\* the store maps user_response_to_<position + 1> to the operator's line,
\* and the loop went on to the next step, or to the return if there is none
AnswerStoredAndPlanGoesOn ==
    LET key == "user_response_to_" \o ToString(Passes) IN
    /\ log[Passes].ret = "True"
    /\ executed_successfully
    /\ error_message_for_llm = NoMessage
    /\ key \in DOMAIN extracted_data
    /\ extracted_data[key] = Str(env_seen.answer)
    /\ i = Passes
    /\ pc = IF Passes < plan_len THEN "exec" ELSE "returned"

BadScrollPass ==
    /\ Passes >= 1
    /\ log[Passes].op = "scroll_window"
    /\ Lower(Get(plan[Passes], "direction", "down")) \notin
         {"down", "up", "to_bottom", "to_top"}

\* C15: the pass that scrolls in an unrecognised direction gets False from
\* scroll_window, makes no driver call, leaves the store as it was, and
\* ends the plan with the ordinary step-failure message.
C15_BadDirectionFailsQuietly ==
    [][(Passes' = Passes + 1 /\ BadScrollPass') =>
         /\ log'[Passes'].ret = "False"
         /\ trace' = <<>>
         /\ extracted_data' = extracted_data
         /\ Aborted'
         /\ i' = i
         /\ error_message_for_llm' = ActionFailed("scroll", plan'[Passes'])]_vars

\* a scroll in an unrecognised direction after a step that wrote the store
C15_Witness ==
    /\ BadScrollPass
    /\ Passes = 2
    /\ log[1].wrote # NoWrite
    /\ Returned

\* the responses after which the loop of the planner asks again
FailedAttempts == {"raises", "empty_text", "not_json", "not_list", "bad_step"}

\* the plan at hand is one error record with a message and nothing else
OneErrorRecord ==
    /\ plan_len = 1
    /\ plan = <<ErrorRecord(plan[1].message)>>

\* every record read so far of the plan at hand has an action key, and so
\* has every record still to be read
EveryRecordHasAction ==
    /\ wellformed
    /\ \A k \in 1..Len(plan) : Has(plan[k], "action")

\* C16: generate_plan_from_instruction makes at most MAX_RETRIES_LLM
\* requests and has returned once the last of them is answered; it asks
\* again only after a request that failed; what it returns is a list whose
\* records all carry an action key, and is a single error record unless
\* the last request brought a valid plan.
C16_PlannerIsBoundedAndWellFormed ==
    /\ requests <= MAX_RETRIES_LLM
    /\ pc = "llm" =>
         /\ requests = attempt
         /\ requests < MAX_RETRIES_LLM
         /\ requests > 0 => raw_llm_output \in FailedAttempts
    /\ pc = "planned" =>
         /\ requests >= 1
         /\ EveryRecordHasAction
         /\ raw_llm_output # "plan" => OneErrorRecord
         /\ (raw_llm_output \in FailedAttempts) => requests = MAX_RETRIES_LLM
    /\ (caller = "main" /\ pc \in {"confirm_long", "confirm", "exec", "returned"}) =>
         EveryRecordHasAction

\* a plan of two records came back from the second request
C16_Witness ==
    /\ pc = "planned"
    /\ requests = 2
    /\ raw_llm_output = "plan"
    /\ plan_len = 2

\* C17 as stated: when execute_plan has returned, its message is None if
\* and only if its verdict is success.
C17_AsStated ==
    Returned => (error_message_for_llm = NoMessage <=> executed_successfully)

\* execute_plan has been entered for the plan at hand
Executing == pc \in {"exec", "returned"}

\* C18: in the operator loop execute_plan runs only on a plan the operator
\* said yes (or y) to at the execution prompt, which is never an empty plan
\* nor one whose first record is an error record or has an empty action,
\* and which, if longer than MAX_STEPS_PER_PLAN, the operator also said yes
\* to at the long-plan prompt; and the session has entered execute_plan
\* exactly once per confirmed plan.
C18_ExecutedOnlyWhenConfirmed ==
    caller = "main" =>
      /\ calls = confirmed
      /\ Executing =>
           /\ answered.run = "yes"
           /\ plan_len > 0
           /\ Len(plan) >= 1
           /\ Get(plan[1], "action", "") \notin {"", "error"}
           /\ plan_len > MAX_STEPS_PER_PLAN => answered.long = "yes"
      /\ ~Executing => answered.run = "none"

\* the second plan of a session is a long one, confirmed at both prompts
C18_Witness ==
    /\ caller = "main"
    /\ pc = "exec"
    /\ calls = 2
    /\ plan_len > MAX_STEPS_PER_PLAN
    /\ answered = [long |-> "yes", run |-> "yes"]

====
